---- MODULE Spec2Model ----
(***************************************************************************)
(* Behavioural feature engineering and scoring pipeline of the peer review *)
(* system (src/src/ml_pipeline.py) together with the review store it reads *)
(* (src/src/database.py).                                                  *)
(*                                                                         *)
(* Numbers.  A pandas cell is NaN, an exact rational n/d, or the exact     *)
(* square root of a rational (the only irrational values the pipeline      *)
(* produces are standard deviations).  Rationals are kept reduced with a   *)
(* positive denominator, so equal numbers are equal records.               *)
(***************************************************************************)
EXTENDS Integers, Sequences, FiniteSets, Bags, TLC

VARIABLES
    store,          \* rows of the reviews table (database.py:34-46)
    df,             \* the DataFrame of events handed to engineer_features
    table,          \* the caller's feature table (features_df)
    models,         \* PeerReviewMLPipeline.models
    scalers,        \* PeerReviewMLPipeline.scalers
    feature_names,  \* PeerReviewMLPipeline.feature_names
    model_dir,      \* the model directory: whether it exists, and its files
    result,         \* outcome of the last call: what it returned or raised
    constraints,    \* whether the reviews table is the one init_database made
    saving,         \* the file operations a running save_models has still to do
    reader,         \* the pipeline of a second process, which loads the directory
    training        \* the assignments a running train_models has still to make

vars ==
    <<store, df, table, models, scalers, feature_names, model_dir, result,
      constraints, saving, reader, training>>

-----------------------------------------------------------------------------
(* Numbers *)

Abs(i) == IF i < 0 THEN -i ELSE i

\* A sequence given as a function on 1..n, with its elements evaluated once.
Series(f) == f \o <<>>

RECURSIVE GCD(_, _)
GCD(a, b) == IF b = 0 THEN a ELSE GCD(b, a % b)

NaN == [k |-> "nan", n |-> 0, d |-> 1]

Q(n, d) ==
    LET g == GCD(Abs(n), Abs(d))
        s == IF d < 0 THEN -1 ELSE 1
    IN  [k |-> "q", n |-> s * (n \div g), d |-> s * (d \div g)]

Int2Q(i) == [k |-> "q", n |-> i, d |-> 1]
Zero == Int2Q(0)
One == Int2Q(1)

IsNaN(x) == x.k = "nan"

\* IEEE arithmetic: an operation with a NaN operand is NaN.  Common factors
\* are divided out before multiplying, which keeps the integers small.
Add(x, y) ==
    IF IsNaN(x) \/ IsNaN(y) THEN NaN
    ELSE LET g == GCD(x.d, y.d)
         IN  Q(x.n * (y.d \div g) + y.n * (x.d \div g), (x.d \div g) * y.d)
Neg(x) == IF IsNaN(x) THEN NaN ELSE [k |-> "q", n |-> -x.n, d |-> x.d]
Sub(x, y) == Add(x, Neg(y))
Mul(x, y) ==
    IF IsNaN(x) \/ IsNaN(y) THEN NaN
    ELSE LET g == GCD(Abs(x.n), y.d)
             h == GCD(Abs(y.n), x.d)
         IN  Q((x.n \div g) * (y.n \div h), (x.d \div h) * (y.d \div g))
\* x / y for y # 0
Div(x, y) == Mul(x, IF IsNaN(y) THEN NaN ELSE Q(y.d, y.n))

\* Comparisons of defined numbers (a comparison with NaN is False in pandas).
Leq(x, y) ==
    /\ ~IsNaN(x) /\ ~IsNaN(y)
    /\ LET g == GCD(x.d, y.d)
       IN  x.n * (y.d \div g) <= y.n * (x.d \div g)
Lt(x, y) == Leq(x, y) /\ x # y

\* The exact square root of a rational q >= 0, kept symbolic.
Sqrt(q) ==
    IF IsNaN(q) THEN NaN
    ELSE IF q.n = 0 THEN Zero
    ELSE [k |-> "sqrt", of |-> q]

\* Series.fillna(0) on one cell
FillNa(x) == IF IsNaN(x) THEN Zero ELSE x

RECURSIVE SumSeq(_)
SumSeq(xs) == IF xs = <<>> THEN Zero ELSE Add(Head(xs), SumSeq(Tail(xs)))

\* The defined (non-NaN) cells of a series, in order.
Valid(xs) == SelectSeq(xs, LAMBDA x : ~IsNaN(x))

\* Mean with the NaN cells counted in the divisor.
Mean_OverAllCells(xs) ==
    LET v == Valid(xs)
    IN  IF v = <<>> THEN NaN ELSE Div(SumSeq(v), Int2Q(Len(xs)))

\* The first defined cell in place of the mean, as Series.iloc[0] gives.
Mean_FirstCell(xs) ==
    LET v == Valid(xs)
    IN  IF v = <<>> THEN NaN ELSE v[1]

\* Series.mean(): NaN cells are skipped; NaN when nothing is left.
Mean(xs) ==
    LET v == Valid(xs)
    IN  IF v = <<>> THEN NaN ELSE Div(SumSeq(v), Int2Q(Len(v)))

\* Series.std(): the sample standard deviation (ddof = 1) of the defined
\* cells; NaN with fewer than two of them.
Std(xs) ==
    LET v == Valid(xs)
        m == Mean(v)
        sq == [i \in 1..Len(v) |-> Mul(Sub(v[i], m), Sub(v[i], m))]
    IN  IF Len(v) < 2 THEN NaN ELSE Sqrt(Div(SumSeq(sq), Int2Q(Len(v) - 1)))

Sum4(a, b, c, d) == Add(Add(a, b), Add(c, d))

\* (boolean Series).mean(): the fraction of True cells.
Fraction(bs) == Q(Cardinality({i \in 1..Len(bs) : bs[i]}), Len(bs))

-----------------------------------------------------------------------------
(* Review events and DataFrames of them *)

\* Employee ids in their sort order (pandas sorts the ids as strings).
EmployeeOrder == <<"E1", "E2">>
Employees == {EmployeeOrder[i] : i \in DOMAIN EmployeeOrder}
EmpRank(e) == CHOOSE i \in DOMAIN EmployeeOrder : EmployeeOrder[i] = e

Descriptors == {"collaborative", "neutral", "withdrawn", "blocking"}

\* self.descriptor_scores
descriptor_scores ==
    [collaborative |-> Int2Q(4), neutral |-> Int2Q(3),
     withdrawn |-> Int2Q(2), blocking |-> Int2Q(1)]

\* Series.map(dict): a key the dict lacks maps to NaN.
MapDescriptor(d) ==
    IF d \in DOMAIN descriptor_scores THEN descriptor_scores[d] ELSE NaN

\* An event is a row of the reviews table: its score cell is NaN where the
\* column is NULL (read_sql_query reads a NULL of an INTEGER column as NaN).
Event(reviewer, reviewee, date, descriptor, score, comment) ==
    [reviewer_id |-> reviewer, reviewee_id |-> reviewee, date |-> date,
     descriptor |-> descriptor, score |-> score, comment |-> comment]

Range(f) == {f[i] : i \in DOMAIN f}

\* The column of a DataFrame of events, or of a sequence of rows.
Column(rows, c) == Series([i \in 1..Len(rows) |-> rows[i][c]])

-----------------------------------------------------------------------------
(* engineer_features: daily aggregation *)

\* df.groupby(['reviewee_id', 'date']): the keys present in df.
GroupKeys(events) ==
    {<<events[i].reviewee_id, events[i].date>> : i \in 1..Len(events)}

\* The rows of one group, in the order of df.
Group(events, key) ==
    SelectSeq(events, LAMBDA e : e.reviewee_id = key[1] /\ e.date = key[2])

KeyLess(a, b) ==
    \/ EmpRank(a[1]) < EmpRank(b[1])
    \/ (a[1] = b[1] /\ a[2] < b[2])

\* groupby iterates its keys in sorted order.
RECURSIVE SortKeys(_)
SortKeys(keys) ==
    IF keys = {} THEN <<>>
    ELSE LET m == CHOOSE a \in keys : \A b \in keys \ {a} : KeyLess(a, b)
         IN  <<m>> \o SortKeys(keys \ {m})

ScoreIs(group, v) == [i \in 1..Len(group) |-> group[i].score = Int2Q(v)]
DescriptorIs(group, d) == [i \in 1..Len(group) |-> group[i].descriptor = d]
HasComment(group) == [i \in 1..Len(group) |-> Len(group[i].comment) > 0]

\* The features dict of one (reviewee, date) group (lines 61-87).
DailyFeatures(key, group) ==
    [employee_id |-> key[1],
     date |-> key[2],
     avg_score |-> Mean(Column(group, "score")),
     avg_descriptor_score |->
         Mean([i \in 1..Len(group) |-> MapDescriptor(group[i].descriptor)]),
     review_count |-> Len(group),
     score_std |-> IF Len(group) > 1 THEN Std(Column(group, "score")) ELSE Zero,
     pct_collaborative |-> Fraction(DescriptorIs(group, "collaborative")),
     pct_withdrawn |-> Fraction(DescriptorIs(group, "withdrawn")),
     pct_neutral |-> Fraction(DescriptorIs(group, "neutral")),
     pct_blocking |-> Fraction(DescriptorIs(group, "blocking")),
     pct_score_5 |-> Fraction(ScoreIs(group, 5)),
     pct_score_4 |-> Fraction(ScoreIs(group, 4)),
     pct_score_3 |-> Fraction(ScoreIs(group, 3)),
     pct_score_2 |-> Fraction(ScoreIs(group, 2)),
     pct_score_1 |-> Fraction(ScoreIs(group, 1)),
     has_comments |-> TRUE \in Range(HasComment(group)),
     comment_ratio |-> Fraction(HasComment(group))]

\* Key order of the features dict: the column order of pd.DataFrame(daily_features).
DailyColumns ==
    <<"employee_id", "date", "avg_score", "avg_descriptor_score", "review_count",
      "score_std", "pct_collaborative", "pct_withdrawn", "pct_neutral",
      "pct_blocking", "pct_score_5", "pct_score_4", "pct_score_3", "pct_score_2",
      "pct_score_1", "has_comments", "comment_ratio">>

\* daily_features with one dict per event instead of one per group.
DailyRows_PerEvent(events) ==
    [i \in 1..Len(events) |->
        DailyFeatures(<<events[i].reviewee_id, events[i].date>>, <<events[i]>>)]

\* daily_features: one dict per group, in groupby order (lines 58-88).
DailyRows(events) ==
    LET keys == SortKeys(GroupKeys(events))
    IN  [i \in 1..Len(keys) |-> DailyFeatures(keys[i], Group(events, keys[i]))]

-----------------------------------------------------------------------------
(* Feature tables *)

\* A DataFrame of features: its column names in order, and its rows, each a
\* function from the column names to cells.
DataFrame(columns, rows) == [columns |-> columns, rows |-> rows]

\* pd.DataFrame([]): no rows and no columns.
EmptyFrame == DataFrame(<<>>, <<>>)

ColumnSet(t) == {t.columns[i] : i \in 1..Len(t.columns)}

\* Columns whose cells are not floating-point numbers.
NonNumeric ==
    {"employee_id", "date", "review_count", "has_comments", "is_anomaly",
     "behavior_cluster"}

Max2(a, b) == IF a >= b THEN a ELSE b

\* The outcome of a call: the exception it raised ("" when it returned) and
\* the value it returned.
Returned(v) == [raised |-> "", value |-> v]
Raised(e, v) == [raised |-> e, value |-> v]

-----------------------------------------------------------------------------
(* add_rolling_features *)

Windows == <<3, 7, 14>>
TrendWindows == <<7, 14>>

WName(prefix, w) == prefix \o ToString(w) \o "d"

RowKeyLeq(a, b) ==
    \/ EmpRank(a.employee_id) < EmpRank(b.employee_id)
    \/ (a.employee_id = b.employee_id /\ a.date <= b.date)

\* df.sort_values(['employee_id', 'date'])
RECURSIVE SortRows(_)
SortRows(rows) ==
    IF rows = <<>> THEN <<>>
    ELSE LET rest == SortRows(Tail(rows))
             h == Head(rows)
             before == SelectSeq(rest, LAMBDA r : ~RowKeyLeq(h, r))
             after == SelectSeq(rest, LAMBDA r : RowKeyLeq(h, r))
         IN  before \o <<h>> \o after

\* x.rolling(window, min_periods=1).mean() at position p of the series x: the
\* mean of the last `window` ROWS up to p.
RollingMeanAt(x, window, p) == Mean(SubSeq(x, Max2(1, p - window + 1), p))

\* x.rolling(window, min_periods=1).std() at position p
RollingStdAt(x, window, p) == Std(SubSeq(x, Max2(1, p - window + 1), p))

\* The difference with the value one row further back than x.diff(window).
DiffAt_OneFurther(x, window, p) ==
    FillNa(IF p > window + 1 THEN Sub(x[p], x[p - window - 1]) ELSE NaN)

\* x.diff(window).fillna(0) at position p: x[p] - x[p - window], 0 where
\* that is undefined.
DiffAt(x, window, p) ==
    FillNa(IF p > window THEN Sub(x[p], x[p - window]) ELSE NaN)

\* The cells the loops over the windows (lines 104-132) add to the row at
\* position p of an employee whose series are avg, collab and withdrawn; the
\* loops are written out, one line per assignment.
RollingCells(avg, collab, withdrawn, p) ==
    [avg_score_rolling_3d |-> RollingMeanAt(avg, 3, p),
     pct_collaborative_rolling_3d |-> RollingMeanAt(collab, 3, p),
     pct_withdrawn_rolling_3d |-> RollingMeanAt(withdrawn, 3, p),
     score_volatility_3d |-> RollingStdAt(avg, 3, p),
     avg_score_rolling_7d |-> RollingMeanAt(avg, 7, p),
     pct_collaborative_rolling_7d |-> RollingMeanAt(collab, 7, p),
     pct_withdrawn_rolling_7d |-> RollingMeanAt(withdrawn, 7, p),
     score_volatility_7d |-> RollingStdAt(avg, 7, p),
     avg_score_rolling_14d |-> RollingMeanAt(avg, 14, p),
     pct_collaborative_rolling_14d |-> RollingMeanAt(collab, 14, p),
     pct_withdrawn_rolling_14d |-> RollingMeanAt(withdrawn, 14, p),
     score_volatility_14d |-> RollingStdAt(avg, 14, p),
     score_trend_7d |-> DiffAt(avg, 7, p),
     collab_trend_7d |-> DiffAt(collab, 7, p),
     score_trend_14d |-> DiffAt(avg, 14, p),
     collab_trend_14d |-> DiffAt(collab, 14, p)]

RECURSIVE RollingColumns(_)
RollingColumns(ws) ==
    IF ws = <<>> THEN <<>>
    ELSE LET w == Head(ws)
         IN  <<WName("avg_score_rolling_", w), WName("pct_collaborative_rolling_", w),
               WName("pct_withdrawn_rolling_", w), WName("score_volatility_", w)>>
             \o RollingColumns(Tail(ws))

RECURSIVE TrendColumns(_)
TrendColumns(ws) ==
    IF ws = <<>> THEN <<>>
    ELSE LET w == Head(ws)
         IN  <<WName("score_trend_", w), WName("collab_trend_", w)>>
             \o TrendColumns(Tail(ws))

\* The columns add_rolling_features appends, in the order it assigns them.
AddedColumns == RollingColumns(Windows) \o TrendColumns(TrendWindows)

\* The row with its NaN cells left in place.
FillNaRow_Skipped(row) == row

\* df.fillna(0) on one row
FillNaRow(row) ==
    [c \in DOMAIN row |-> IF c \in NonNumeric THEN row[c] ELSE FillNa(row[c])]

\* The series of column c over the rows of every employee, as df[c] without
\* the groupby gives.
EmployeeSeries_AllRows(rows, i, c) == Column(rows, c)

\* df.groupby('employee_id')[c]: the series of column c for the employee of
\* row i, and the position of row i in it.
EmployeeSeries(rows, i, c) ==
    Column(SelectSeq(rows, LAMBDA r : r.employee_id = rows[i].employee_id), c)
EmployeePosition(rows, i) ==
    Cardinality({j \in 1..i : rows[j].employee_id = rows[i].employee_id})

\* add_rolling_features (lines 97-137).  sort_values raises KeyError on a
\* frame that has no employee_id column.
add_rolling_features(t) ==
    IF ~({"employee_id", "date"} \subseteq ColumnSet(t))
    THEN Raised("KeyError", t)
    ELSE LET rows == SortRows(t.rows)
             cells(i) ==
                 RollingCells(EmployeeSeries(rows, i, "avg_score"),
                              EmployeeSeries(rows, i, "pct_collaborative"),
                              EmployeeSeries(rows, i, "pct_withdrawn"),
                              EmployeePosition(rows, i))
         IN  Returned(DataFrame(
                 t.columns \o AddedColumns,
                 [i \in 1..Len(rows) |-> FillNaRow(rows[i] @@ cells(i))]))

\* engineer_features (lines 41-95): the frame of the daily dicts, then the
\* rolling features; an exception of add_rolling_features propagates.
engineer_features(events) ==
    LET daily == DailyRows(events)
        features_df ==
            IF daily = <<>> THEN EmptyFrame ELSE DataFrame(DailyColumns, daily)
    IN  add_rolling_features(features_df)

-----------------------------------------------------------------------------
(* create_composite_score *)

\* The guard added to both denominators is 1/EpsDen.  The source uses 1e-8;
\* the model uses a coarser positive value so that exact arithmetic stays
\* within TLC's integers.
EpsDen == 10
Epsilon == Q(1, EpsDen)

\* weights, in the order of the dict
Weights ==
    <<[feature |-> "avg_score", weight |-> Q(30, 100)],
      [feature |-> "pct_collaborative", weight |-> Q(25, 100)],
      [feature |-> "pct_withdrawn", weight |-> Q(-15, 100)],
      [feature |-> "pct_blocking", weight |-> Q(-20, 100)],
      [feature |-> "score_volatility_7d", weight |-> Q(-10, 100)]>>

\* Series.min() and Series.max(): over the defined cells, NaN when none.
RECURSIVE SeriesMin(_)
SeriesMin(xs) ==
    LET v == Valid(xs)
    IN  IF v = <<>> THEN NaN
        ELSE IF Len(v) = 1 THEN v[1]
        ELSE LET m == SeriesMin(Tail(v))
             IN  IF Leq(Head(v), m) THEN Head(v) ELSE m

RECURSIVE SeriesMax(_)
SeriesMax(xs) ==
    LET v == Valid(xs)
    IN  IF v = <<>> THEN NaN
        ELSE IF Len(v) = 1 THEN v[1]
        ELSE LET m == SeriesMax(Tail(v))
             IN  IF Leq(m, Head(v)) THEN Head(v) ELSE m

\* (x - x.min()) / (x.max() - x.min() + 1e-8), cell by cell (lines 171-173)
Normalize(xs) ==
    LET lo == SeriesMin(xs)
        den == Add(Sub(SeriesMax(xs), lo), Epsilon)
    IN  Series([i \in 1..Len(xs) |-> Div(Sub(xs[i], lo), den)])

\* The rescaling without the subtraction of the minimum.
Rescale_MinNotSubtracted(xs) ==
    LET den == Add(Sub(SeriesMax(xs), SeriesMin(xs)), Epsilon)
    IN  Series([i \in 1..Len(xs) |-> Add(One, Mul(Int2Q(4), Div(xs[i], den)))])

\* 1 + 4 * (x - x.min()) / (x.max() - x.min() + 1e-8) (lines 177-179)
Rescale(xs) ==
    LET lo == SeriesMin(xs)
        den == Add(Sub(SeriesMax(xs), lo), Epsilon)
    IN  Series([i \in 1..Len(xs) |-> Add(One, Mul(Int2Q(4), Div(Sub(xs[i], lo), den)))])

\* The loop over the weights (lines 167-174): the weighted sum of the
\* normalized columns the table has.
RECURSIVE WeightedSum(_, _)
WeightedSum(t, ws) ==
    IF ws = <<>> THEN Series([i \in 1..Len(t.rows) |-> Zero])
    ELSE LET w == ws[Len(ws)]
             sum == WeightedSum(t, SubSeq(ws, 1, Len(ws) - 1))
         IN  IF w.feature \in ColumnSet(t)
             THEN LET normalized == Normalize(Column(t.rows, w.feature))
                  IN  Series([i \in 1..Len(t.rows) |->
                          Add(sum[i], Mul(w.weight, normalized[i]))])
             ELSE sum

\* create_composite_score (lines 156-181).  With none of the weighted
\* columns in the table composite_score is still the int 0, whose .min()
\* raises AttributeError.
create_composite_score(t) ==
    IF \A i \in 1..Len(Weights) : Weights[i].feature \notin ColumnSet(t)
    THEN Raised("AttributeError", <<>>)
    ELSE Returned(Rescale(WeightedSum(t, Weights)))

-----------------------------------------------------------------------------
(* The review store and get_reviews *)

\* ORDER BY date DESC, reviewee_id: the order of rows that compare equal is
\* whatever SQLite produces.
IsQueryOrder(events) ==
    \A i \in 1..Len(events) - 1 :
        \/ events[i].date > events[i + 1].date
        \/ /\ events[i].date = events[i + 1].date
           /\ EmpRank(events[i].reviewee_id) <= EmpRank(events[i + 1].reviewee_id)

\* UNIQUE(reviewer_id, reviewee_id, date)
UniqueKeys(events) ==
    \A a, b \in events :
        (a.reviewer_id = b.reviewer_id /\ a.reviewee_id = b.reviewee_id
         /\ a.date = b.date) => a = b

\* An optional argument: None, or the one value given.
None == {}
Some(v) == {v}

\* Every order of the rows of a result set.
Orderings(S) == {s \in [1..Cardinality(S) -> S] : Range(s) = S}

\* The orders of the rows of a result set that IsQueryOrder admits, built
\* from the first row on: a first row has no row that the ORDER BY clause
\* puts before it.
RECURSIVE QueryOrders(_)
QueryOrders(S) ==
    IF S = {} THEN {<<>>}
    ELSE LET first == {e \in S : \A o \in S : IsQueryOrder(<<e, o>>)}
         IN  UNION {{<<e>> \o s : s \in QueryOrders(S \ {e})} : e \in first}

\* get_reviews (database.py lines 95-134): the rows that pass the filters
\* given, in every order the ORDER BY clause admits.
get_reviews(events, start_date, end_date, reviewee_id) ==
    LET selected ==
            {e \in events :
                /\ \A d \in start_date : e.date >= d
                /\ \A d \in end_date : e.date <= d
                /\ \A r \in reviewee_id : e.reviewee_id = r}
    IN  QueryOrders(selected)

-----------------------------------------------------------------------------
(* The estimators of scikit-learn, as far as the pipeline tells them apart *)

n_clusters == 4
test_days == 14

\* A dict: a function from its keys.  d[key] = value
EmptyDict == [key \in {} |-> key]
Put(d, key, value) == (key :> value) @@ d
Keys(d) == DOMAIN d

\* An estimator as constructed: its class and the train_models call that
\* constructed it.
Estimator(class, run) ==
    [class |-> class, run |-> run, fitted |-> FALSE, features |-> <<>>,
     learned |-> <<>>]

\* est.fit(X): the columns of X and what the estimator answers afterwards.
\* An estimator answers every row alike: its fit chooses one output.
Fit(est, columns, learned) ==
    [est EXCEPT !.fitted = TRUE, !.features = columns, !.learned = learned]

\* What a fit can learn: the value the regressor predicts, the decision
\* score of the detector, the cluster of the clusterer.
Learnable ==
    [predicted_score : {Int2Q(3)},
     anomaly_score : {Q(-1, 10), Zero, Q(1, 10)},
     behavior_cluster : {0, n_clusters - 1}]

\* The exception of est.predict(X), est.transform(X) or
\* est.decision_function(X), "" when there is none: an estimator that was
\* not fitted raises NotFittedError, one fitted on other columns ValueError.
Rejects(est, columns) ==
    IF ~est.fitted THEN "NotFittedError"
    ELSE IF est.features # columns THEN "ValueError"
    ELSE ""

\* The first exception of a sequence of steps.
RECURSIVE FirstRaised(_)
FirstRaised(es) ==
    IF es = <<>> THEN ""
    ELSE IF Head(es) # "" THEN Head(es)
    ELSE FirstRaised(Tail(es))

-----------------------------------------------------------------------------
(* train_models, predict_scores, get_employee_insights *)

\* features_df[name] = values: a new column goes last, an existing one keeps
\* its place.
WithColumn(t, name, values) ==
    DataFrame(IF name \in ColumnSet(t) THEN t.columns ELSE Append(t.columns, name),
              [i \in 1..Len(t.rows) |->
                  [c \in DOMAIN t.rows[i] \cup {name} |->
                      IF c = name THEN values[i] ELSE t.rows[i][c]]])

\* The pipeline object: self.models, self.scalers, self.feature_names.
PipelineOf(m, s, f) == [models |-> m, scalers |-> s, feature_names |-> f]

IsTrainingColumn(c) == c \notin {"employee_id", "date"}
IsInferenceColumn(c) == c \notin {"employee_id", "date", "composite_score"}

\* features_df['date'].max()
RECURSIVE MaxDate(_)
MaxDate(rows) ==
    IF Len(rows) = 1 THEN rows[1].date
    ELSE Max2(rows[1].date, MaxDate(Tail(rows)))

\* The training mask with the row dated exactly test_date left out.
TrainRows_BeforeTestDate(t) ==
    {i \in 1..Len(t.rows) : t.rows[i].date < MaxDate(t.rows) - test_days}

\* train_mask (line 202) and test_mask (line 203), as sets of row positions
TrainRows(t) ==
    {i \in 1..Len(t.rows) : t.rows[i].date <= MaxDate(t.rows) - test_days}
TestRows(t) ==
    {i \in 1..Len(t.rows) : t.rows[i].date > MaxDate(t.rows) - test_days}

\* train_models (lines 183-244) on a table of at least one row, as the
\* run-th call, learning `learned`: the exception raised, the pipeline and
\* the caller's table as the call leaves them.  The steps are taken in the
\* order of the source, and an exception leaves what the steps before it did:
\*   192      feature_names is replaced
\*   195-196  the composite score is computed and put into the table
\*   209-214  a new regressor is installed, then fitted on the training rows;
\*            fit raises ValueError when there are none
\*   223-230  the anomaly scaler and detector are installed and fitted
\*   233-241  the clustering scaler is installed and fitted, a new KMeans is
\*            installed, and its fit raises ValueError on fewer rows than
\*            clusters
train_models(p, t, run, learned) ==
    LET feature_columns == SelectSeq(t.columns, IsTrainingColumn)
        p1 == [p EXCEPT !.feature_names = feature_columns]
        y == create_composite_score(t)
        t1 == WithColumn(t, "composite_score", y.value)
        regressor == Estimator("RandomForestRegressor", run)
        p2 == [p1 EXCEPT !.models = Put(@, "score_predictor", regressor)]
        p3 == [p1 EXCEPT
                 !.models =
                     Put(Put(@, "score_predictor",
                             Fit(regressor, feature_columns, learned.predicted_score)),
                         "anomaly_detector",
                         Fit(Estimator("IsolationForest", run), feature_columns,
                             learned.anomaly_score)),
                 !.scalers =
                     Put(Put(@, "anomaly",
                             Fit(Estimator("StandardScaler", run), feature_columns, <<>>)),
                         "clustering",
                         Fit(Estimator("StandardScaler", run), feature_columns, <<>>))]
        clusterer == Estimator("KMeans", run)
        p4 == [p3 EXCEPT !.models = Put(@, "behavior_clusters", clusterer)]
        p5 == [p3 EXCEPT !.models =
                  Put(@, "behavior_clusters",
                      Fit(clusterer, feature_columns, learned.behavior_cluster))]
    IN  IF y.raised # ""
        THEN [raised |-> y.raised, pipeline |-> p1, table |-> t]
        ELSE IF TrainRows(t) = {}
        THEN [raised |-> "ValueError", pipeline |-> p2, table |-> t1]
        ELSE IF Len(t.rows) < n_clusters
        THEN [raised |-> "ValueError", pipeline |-> p4, table |-> t1]
        ELSE [raised |-> "", pipeline |-> p5, table |-> t1]

\* The prediction columns predict_scores makes, in the order of the dict
\* (lines 256-269): one per estimator the pipeline has.
RECURSIVE WithColumns(_, _)
WithColumns(t, cs) ==
    IF cs = <<>> THEN t
    ELSE WithColumn(WithColumns(t, SubSeq(cs, 1, Len(cs) - 1)),
                    cs[Len(cs)].name,
                    [i \in 1..Len(t.rows) |-> cs[Len(cs)].value])

\* A decision score at or below the offset counts as an anomaly.
IsAnomaly_AtOrBelow(decision) == Leq(decision, Zero)

\* IsolationForest.predict(X) == -1 (line 262): predict answers -1 for the
\* rows whose decision_function, the score less the offset calibrated by
\* contamination, is negative.
IsAnomaly(decision) == Lt(decision, Zero)

\* predict_scores (lines 246-274): the exception raised and the table, which
\* gets the prediction columns only when every step has succeeded.  The
\* columns given to the estimators are those of the table but employee_id,
\* date and composite_score; self.scalers[...] raises KeyError for a scaler
\* the pipeline does not have.
predict_scores(p, t) ==
    LET feature_columns == SelectSeq(t.columns, IsInferenceColumn)
        m == p.models
        s == p.scalers
        Scaled(name) ==
            IF name \in Keys(s) THEN Rejects(s[name], feature_columns)
            ELSE "KeyError"
        raised ==
            FirstRaised(
                (IF "score_predictor" \in Keys(m)
                 THEN <<Rejects(m["score_predictor"], feature_columns)>> ELSE <<>>)
                \o (IF "anomaly_detector" \in Keys(m)
                    THEN <<Scaled("anomaly"),
                           Rejects(m["anomaly_detector"], feature_columns)>>
                    ELSE <<>>)
                \o (IF "behavior_clusters" \in Keys(m)
                    THEN <<Scaled("clustering"),
                           Rejects(m["behavior_clusters"], feature_columns)>>
                    ELSE <<>>))
        predictions ==
            (IF "score_predictor" \in Keys(m)
             THEN <<[name |-> "predicted_score",
                     value |-> m["score_predictor"].learned]>>
             ELSE <<>>)
            \o (IF "anomaly_detector" \in Keys(m)
                THEN <<[name |-> "anomaly_score",
                        value |-> m["anomaly_detector"].learned],
                       [name |-> "is_anomaly",
                        value |-> IsAnomaly(m["anomaly_detector"].learned)]>>
                ELSE <<>>)
            \o (IF "behavior_clusters" \in Keys(m)
                THEN <<[name |-> "behavior_cluster",
                        value |-> m["behavior_clusters"].learned]>>
                ELSE <<>>)
    IN  IF raised # "" THEN [raised |-> raised, table |-> t]
        ELSE [raised |-> "", table |-> WithColumns(t, predictions)]

\* latest.get(name, default)
Get(row, name, default) == IF name \in DOMAIN row THEN row[name] ELSE default

\* features_df['review_count'].sum()
RECURSIVE SumCounts(_)
SumCounts(rows) ==
    IF rows = <<>> THEN 0 ELSE rows[1].review_count + SumCounts(Tail(rows))

\* Lines 291-292: predict_scores is called when self.models is not empty.
PredictIfLoaded(p, features_df) ==
    IF Keys(p.models) # {} THEN predict_scores(p, features_df)
    ELSE [raised |-> "", table |-> features_df]

\* The insights dict with the defaults of the ML-derived fields set as if
\* every row without a prediction were anomalous and of the last cluster.
Insights_AnomalyByDefault(employee_id, start_date, end_date, latest, total_reviews) ==
    [employee_id |-> employee_id,
     date_range |-> <<start_date, end_date>>,
     avg_score |-> latest.avg_score,
     composite_score |-> Get(latest, "composite_score", Zero),
     collaboration_rate |-> latest.pct_collaborative,
     withdrawn_rate |-> latest.pct_withdrawn,
     score_trend_7d |-> Get(latest, "score_trend_7d", Zero),
     is_anomaly |-> Get(latest, "is_anomaly", TRUE),
     behavior_cluster |-> Get(latest, "behavior_cluster", n_clusters - 1),
     total_reviews |-> total_reviews]

\* The insights dict (lines 297-308) of the row latest.
Insights(employee_id, start_date, end_date, latest, total_reviews) ==
    [employee_id |-> employee_id,
     date_range |-> <<start_date, end_date>>,
     avg_score |-> latest.avg_score,
     composite_score |-> Get(latest, "composite_score", Zero),
     collaboration_rate |-> latest.pct_collaborative,
     withdrawn_rate |-> latest.pct_withdrawn,
     score_trend_7d |-> Get(latest, "score_trend_7d", Zero),
     is_anomaly |-> Get(latest, "is_anomaly", FALSE),
     behavior_cluster |-> Get(latest, "behavior_cluster", 0),
     total_reviews |-> total_reviews]

\* The insight taken from the first row of the table, features_df.iloc[0].
InsightsOfTable_FirstRow(employee_id, start_date, end_date, predicted) ==
    IF predicted.raised # "" THEN Raised(predicted.raised, <<>>)
    ELSE Returned(Insights(employee_id, start_date, end_date,
                           predicted.table.rows[1],
                           SumCounts(predicted.table.rows)))

\* Lines 294-310: latest = features_df.iloc[-1]; an exception of
\* predict_scores propagates.
InsightsOfTable(employee_id, start_date, end_date, predicted) ==
    IF predicted.raised # "" THEN Raised(predicted.raised, <<>>)
    ELSE Returned(Insights(employee_id, start_date, end_date,
                           predicted.table.rows[Len(predicted.table.rows)],
                           SumCounts(predicted.table.rows)))

\* get_employee_insights without the check of lines 284-285: the empty
\* DataFrame reaches engineer_features, whose df['date'] raises.
get_employee_insights_Unchecked(p, reviews, employee_id, start_date, end_date) ==
    IF Len(reviews) = 0
    THEN Raised("KeyError", <<>>)
    ELSE InsightsOfTable(employee_id, start_date, end_date,
             PredictIfLoaded(p, engineer_features(reviews).value))

\* get_employee_insights (lines 276-310) from the point where get_reviews
\* has returned reviews.
get_employee_insights(p, reviews, employee_id, start_date, end_date) ==
    IF Len(reviews) = 0
    THEN Returned([error |-> "No recent data found for employee"])
    ELSE InsightsOfTable(employee_id, start_date, end_date,
             PredictIfLoaded(p, engineer_features(reviews).value))

-----------------------------------------------------------------------------
(* save_models and load_models *)

\* PeerReviewMLPipeline(db): lines 27-31
NewPipeline == PipelineOf(EmptyDict, EmptyDict, <<>>)

\* The keys train_models gives the dicts, in the order it inserts them.
ModelNames == <<"score_predictor", "anomaly_detector", "behavior_clusters">>
ScalerNames == <<"anomaly", "clustering">>

\* models_path / f"{name}.pkl", f"scaler_{name}.pkl", "feature_names.pkl"
PklFile(prefix, name) == prefix \o name \o ".pkl"
ModelFile(name) == PklFile("", name)
ScalerFile(name) == PklFile("scaler_", name)
FeatureNamesFile == "feature_names.pkl"

\* The directory before the first save_models: Path(models_dir) does not
\* exist.
NoDirectory == [exists |-> FALSE, files |-> EmptyDict]

\* What a file holds: the bytes pickle.dump wrote for an object, or nothing
\* yet, between open(path, 'wb') and the dump.
Pickled(object) == [bytes |-> "pickle", object |-> object]
Empty == [bytes |-> ""]

\* pickle.load: the object, or EOFError on an empty file.
Unpickle(content) ==
    IF content = Empty THEN Raised("EOFError", <<>>)
    ELSE Returned(content.object)

\* with open(path, 'wb') as f: pickle.dump(object, f), as two operations on
\* the file.
WriteFile(file, object) ==
    <<[do |-> "open", file |-> file, object |-> object],
      [do |-> "dump", file |-> file, object |-> object]>>

\* The writes of the loop over a dict (lines 318-320, 323-325), for the keys
\* in the order names, to the files named with prefix.
RECURSIVE WriteDict(_, _, _)
WriteDict(d, names, prefix) ==
    IF names = <<>> THEN <<>>
    ELSE (IF Head(names) \in Keys(d)
          THEN WriteFile(PklFile(prefix, Head(names)), d[Head(names)]) ELSE <<>>)
         \o WriteDict(d, Tail(names), prefix)

\* The file operations of save_models (lines 318-329) after the mkdir, in
\* order: the models, the scalers, the feature names.
SaveOperations(p) ==
    WriteDict(p.models, ModelNames, "")
    \o WriteDict(p.scalers, ScalerNames, "scaler_")
    \o WriteFile(FeatureNamesFile, p.feature_names)

\* One file operation on the directory.
Perform(dir, operation) ==
    [dir EXCEPT !.files =
        Put(@, operation.file,
            IF operation.do = "open" THEN Empty ELSE Pickled(operation.object))]

\* The loop body that installs the models and drops the other files.
Install_ModelsOnly(p, file, object) ==
    IF \E i \in DOMAIN ModelNames : file = ModelFile(ModelNames[i])
    THEN LET i == CHOOSE j \in DOMAIN ModelNames : file = ModelFile(ModelNames[j])
         IN  [p EXCEPT !.models = Put(@, ModelNames[i], object)]
    ELSE p

\* The body of the loop of load_models (lines 344-353) for one file that
\* could be read.
Install(p, file, object) ==
    IF \E i \in DOMAIN ScalerNames : file = ScalerFile(ScalerNames[i])
    THEN LET i == CHOOSE j \in DOMAIN ScalerNames : file = ScalerFile(ScalerNames[j])
         IN  [p EXCEPT !.scalers = Put(@, ScalerNames[i], object)]
    ELSE IF file = FeatureNamesFile
    THEN [p EXCEPT !.feature_names = object]
    ELSE LET i == CHOOSE j \in DOMAIN ModelNames : file = ModelFile(ModelNames[j])
         IN  [p EXCEPT !.models = Put(@, ModelNames[i], object)]

RECURSIVE InstallAll(_, _, _)
InstallAll(p, dir, files) ==
    IF files = {} THEN p
    ELSE LET file == CHOOSE f \in files : TRUE
         IN  InstallAll(Install(p, file, Unpickle(dir.files[file]).value),
                        dir, files \ {file})

\* The files of the directory pickle.load can read.
Readable(dir) ==
    {f \in Keys(dir.files) : Unpickle(dir.files[f]).raised = ""}

\* The sets of files load_models can have read when it returns: the glob
\* yields the files in an order of the file system's; the loop ends at the
\* first file pickle.load raises on, or after the last file.
ReadSets(dir) ==
    IF Readable(dir) = Keys(dir.files) THEN {Readable(dir)}
    ELSE SUBSET Readable(dir)

\* load_models (lines 333-360) into the pipeline p, having read the files
\* read: what it returns and the pipeline as it leaves it.  The except
\* clause returns False and undoes nothing.
load_models(p, dir, read) ==
    IF ~dir.exists THEN [returned |-> FALSE, pipeline |-> p]
    ELSE [returned |-> Readable(dir) = Keys(dir.files),
          pipeline |-> InstallAll(p, dir, read)]

-----------------------------------------------------------------------------
(* Feature engineering on the contents of a store *)

MaxEvents == 3

\* The (reviewee, date) pairs events are drawn for: two employees on one
\* day, and two days of one employee.
Slots == {<<"E1", 1>>, <<"E1", 2>>, <<"E2", 1>>}

\* Score cells events are drawn with: NULL, and three of the values 1..5.
ScoreCells == {NaN, Int2Q(3), Int2Q(4), Int2Q(5)}

\* The reviewer of the i-th row; engineer_features does not read reviewer_id.
Reviewer(i) == "R" \o ToString(i)

Payloads == [slot : Slots, descriptor : Descriptors, score : ScoreCells]

\* The outcome of the last call: the method, the exception it raised ("" when
\* it returned) and what it returned to a caller that keeps no table.
NoValue == <<>>
Outcome(op, raised, value) == [op |-> op, raised |-> raised, value |-> value]
\* No call has been made yet.
NoResult == Outcome("none", "", NoValue)

InitPipeline ==
    /\ models = EmptyDict
    /\ scalers = EmptyDict
    /\ feature_names = <<>>
    /\ model_dir = NoDirectory
    /\ constraints = TRUE
    /\ saving = <<>>
    /\ reader = NewPipeline
    /\ training = <<>>

\* Every DataFrame get_reviews() can return for a store of at most MaxEvents
\* events.
InitFeatures ==
    /\ \E n \in 0..MaxEvents : \E f \in [1..n -> Payloads] :
          /\ df = [i \in 1..n |->
                     Event(Reviewer(i), f[i].slot[1], f[i].slot[2],
                           f[i].descriptor, f[i].score, "")]
          /\ IsQueryOrder(df)
          /\ store = Range(df)
    /\ table = EmptyFrame
    /\ result = NoResult
    /\ InitPipeline

\* features_df = pipeline.engineer_features(df)
EngineerFeaturesCall ==
    /\ table = EmptyFrame
    /\ LET r == engineer_features(df)
       IN  /\ result' = [op |-> "engineer_features", raised |-> r.raised,
                         value |-> r.value]
           /\ table' = IF r.raised = "" THEN r.value ELSE table
    /\ UNCHANGED <<store, df, models, scalers, feature_names, model_dir,
                   constraints, saving, reader, training>>

NextFeatures == EngineerFeaturesCall

SpecFeatures == InitFeatures /\ [][NextFeatures]_vars

-----------------------------------------------------------------------------
(* Properties of engineer_features, checked under SpecFeatures *)

\* engineer_features has been called and has returned a table.
Engineered == result.op = "engineer_features" /\ result.raised = ""

\* The rows engineer_features emitted (none when it raised).
EmittedRows == IF Engineered THEN table.rows ELSE <<>>

RowKey(row) == <<row.employee_id, row.date>>

\* The score cells present (not NULL) in a group of events.
PresentScores(group) == Valid(Column(group, "score"))

\* C2: in every row of engineer_features the four descriptor proportions sum
\* to 1 and the five score-value proportions sum to 1, whatever events the
\* store holds (the score of an event may be NULL).
C2_ProportionsSumToOne ==
    \A i \in 1..Len(EmittedRows) :
        LET row == EmittedRows[i]
        IN  /\ Sum4(row.pct_collaborative, row.pct_neutral, row.pct_withdrawn,
                    row.pct_blocking) = One
            /\ Add(row.pct_score_1,
                   Sum4(row.pct_score_2, row.pct_score_3, row.pct_score_4,
                        row.pct_score_5)) = One

\* C3: engineer_features emits exactly one row for each (reviewee_id, date)
\* pair that has an event and no other row; every row has review_count >= 1
\* and no two rows share (employee_id, date).
C3_OneRowPerPair ==
    result.op = "engineer_features" =>
        /\ {RowKey(EmittedRows[i]) : i \in 1..Len(EmittedRows)} = GroupKeys(df)
        /\ \A i, j \in 1..Len(EmittedRows) :
               RowKey(EmittedRows[i]) = RowKey(EmittedRows[j]) => i = j
        /\ \A i \in 1..Len(EmittedRows) : EmittedRows[i].review_count >= 1

\* A table of two rows was returned for three events, two of which share a pair.
C3_Witness ==
    /\ Engineered
    /\ Len(table.rows) = 2
    /\ Len(df) = 3

\* C4: every aggregate, rolling and trend cell of every row engineer_features
\* returns is a defined number; what would be undefined is 0.
C4_NoUndefinedCell ==
    \A i \in 1..Len(EmittedRows) :
        \A c \in DOMAIN EmittedRows[i] \ NonNumeric : ~IsNaN(EmittedRows[i][c])

\* A returned row of a single event that has no score: its mean score and
\* its rolling deviation are undefined before the fill, and 0 in the output.
C4_Witness ==
    /\ Engineered
    /\ \E i \in 1..Len(table.rows) :
          LET row == table.rows[i]
          IN  /\ row.review_count = 1
              /\ PresentScores(Group(df, RowKey(row))) = <<>>
              /\ row.avg_score = Zero
              /\ row.score_volatility_7d = Zero
              /\ row.score_trend_7d = Zero

\* The number of events of a group with the given descriptor.
CountDescriptor(group, d) ==
    Cardinality({i \in 1..Len(group) : group[i].descriptor = d})

\* What C5 states of the row of one group, except its mean score.
C5_CountsOf(row, group) ==
    /\ row.review_count = Len(group)
    /\ \A d \in Descriptors :
           Mul(row["pct_" \o d], Int2Q(Len(group))) = Int2Q(CountDescriptor(group, d))

\* C5 as stated: for each group of n events the row's review_count is n,
\* avg_score is the sum of the scores divided by n and each pct_<descriptor>
\* is the number of events with that descriptor divided by n.
C5_AggregatesOverN ==
    \A i \in 1..Len(EmittedRows) :
        LET row == EmittedRows[i]
            group == Group(df, RowKey(row))
        IN  /\ C5_CountsOf(row, group)
            /\ Mul(row.avg_score, Int2Q(Len(group))) = SumSeq(PresentScores(group))

\* C5 amended: avg_score is the sum of the scores present divided by the
\* number of events that have a score (0 when no event has one); review_count
\* and the descriptor proportions are over all n events.
C5_AggregatesOverPresent ==
    \A i \in 1..Len(EmittedRows) :
        LET row == EmittedRows[i]
            group == Group(df, RowKey(row))
            present == PresentScores(group)
        IN  /\ C5_CountsOf(row, group)
            /\ Mul(row.avg_score, Int2Q(Len(present))) = SumSeq(present)
            /\ present = <<>> => row.avg_score = Zero

\* Scenario A: collaborative, collaborative, neutral with scores 4, 5, 3 on
\* one day give review_count 3, mean 4, 2/3 collaborative, 1/3 neutral.
C5_Witness ==
    /\ Engineered
    /\ Len(df) = 3
    /\ Column(df, "descriptor") = <<"collaborative", "collaborative", "neutral">>
    /\ Column(df, "score") = <<Int2Q(4), Int2Q(5), Int2Q(3)>>
    /\ Len(table.rows) = 1
    /\ table.rows[1].review_count = 3
    /\ table.rows[1].avg_score = Int2Q(4)
    /\ table.rows[1].pct_collaborative = Q(2, 3)
    /\ table.rows[1].pct_neutral = Q(1, 3)
    /\ table.rows[1].pct_withdrawn = Zero
    /\ table.rows[1].pct_blocking = Zero

\* C6: engineer_features on an empty collection of events returns an empty
\* feature table and does not raise.
C6_EmptyInputEmptyTable ==
    (result.op = "engineer_features" /\ df = <<>>) =>
        (result.raised = "" /\ table.rows = <<>>)

-----------------------------------------------------------------------------
(* The composite scorer on feature tables *)

MaxRows == 3

\* Cells the weighted columns are drawn from: two values per column, but
\* for pct_blocking, which is 0 in every row.
ScorerCells ==
    [avg_score : {Int2Q(3), Int2Q(5)},
     pct_collaborative : {Zero, Q(1, 2)},
     pct_withdrawn : {Zero, Q(1, 2)},
     pct_blocking : {Zero},
     score_volatility_7d : {Zero, One}]

ScorerColumns ==
    <<"employee_id", "date", "avg_score", "pct_collaborative", "pct_withdrawn",
      "pct_blocking", "score_volatility_7d">>

\* Every table of 1..MaxRows rows of one employee, one row per day.
InitScorer ==
    /\ \E n \in 1..MaxRows : \E f \in [1..n -> ScorerCells] :
          table = DataFrame(ScorerColumns,
                      [i \in 1..n |-> [employee_id |-> "E1", date |-> i] @@ f[i]])
    /\ store = {}
    /\ df = <<>>
    /\ result = NoResult
    /\ InitPipeline

\* y = self.create_composite_score(features_df); features_df['composite_score'] = y
CreateCompositeScoreCall ==
    /\ result.op = "none"
    /\ LET r == create_composite_score(table)
       IN  /\ result' = Outcome("create_composite_score", r.raised, NoValue)
           /\ table' =
                  IF r.raised # "" THEN table
                  ELSE DataFrame(table.columns \o <<"composite_score">>,
                           [i \in 1..Len(table.rows) |->
                               table.rows[i] @@ [composite_score |-> r.value[i]]])
    /\ UNCHANGED <<store, df, models, scalers, feature_names, model_dir,
                   constraints, saving, reader, training>>

NextScorer == CreateCompositeScoreCall

SpecScorer == InitScorer /\ [][NextScorer]_vars

\* C1: for every non-empty feature table, also one of a single row or with a
\* column (or the weighted sum) constant over the rows, create_composite_score
\* returns without error one defined value per row, each in [1,5].
C1_CompositeInRange ==
    result.op = "create_composite_score" =>
        /\ result.raised = ""
        /\ "composite_score" \in ColumnSet(table)
        /\ \A i \in 1..Len(table.rows) :
               /\ ~IsNaN(table.rows[i].composite_score)
               /\ Leq(One, table.rows[i].composite_score)
               /\ Leq(table.rows[i].composite_score, Int2Q(5))

\* A scored table of three rows in which avg_score is constant and
\* pct_collaborative is not, with a row scored 1 and a row scored above 1.
C1_Witness ==
    /\ result.op = "create_composite_score"
    /\ Len(table.rows) = 3
    /\ \A i \in 1..3 : table.rows[i].avg_score = table.rows[1].avg_score
    /\ \E i \in 1..3 : table.rows[i].pct_collaborative # table.rows[1].pct_collaborative
    /\ \E i \in 1..3 : table.rows[i].composite_score = One
    /\ \E i \in 1..3 : Lt(Int2Q(4), table.rows[i].composite_score)

\* A scored table of a single row: every column is constant.
C1_WitnessSingleRow ==
    /\ result.op = "create_composite_score"
    /\ Len(table.rows) = 1
    /\ table.rows[1].composite_score = One

-----------------------------------------------------------------------------
(* The pipeline in use: a caller that holds the reviews and a feature table *)

MaxRuns == 2

\* datetime.now().date(): the day of the calls.
Today == test_days + 2

\* The days argument of get_employee_insights: one day, and the default.
LookbackDays == {1, test_days}

\* The (reviewee, date) pairs the store holds events for: a history of one
\* employee that spans more than test_days, and one day of another.
HistorySlots == {<<"E1", 1>>, <<"E1", 2>>, <<"E1", Today>>, <<"E2", Today>>}

\* What an event of the store carries.  The scores present are equal, so
\* that every standard deviation of the tables is 0 and the composite score
\* of an engineered table is a rational number.
HistoryPayloads ==
    {[descriptor |-> "collaborative", score |-> Int2Q(4)],
     [descriptor |-> "withdrawn", score |-> NaN]}

\* The store holds at most one event per slot, and the caller has fetched
\* all of them: df = db.get_reviews().
Init ==
    /\ \E held \in SUBSET HistorySlots : \E f \in [held -> HistoryPayloads] :
          store = {Event("R1", slot[1], slot[2], f[slot].descriptor,
                         f[slot].score, "") : slot \in held}
    /\ df \in get_reviews(store, None, None, None)
    /\ table = EmptyFrame
    /\ result = NoResult
    /\ InitPipeline

Pipeline == PipelineOf(models, scalers, feature_names)

\* The number of the next train_models call: one more than the calls that
\* have constructed an estimator of the pipeline.
RECURSIVE MaxOf(_)
MaxOf(S) ==
    IF S = {} THEN 0
    ELSE LET x == CHOOSE y \in S : TRUE IN Max2(x, MaxOf(S \ {x}))
NextRun ==
    1 + MaxOf({models[k].run : k \in Keys(models)}
              \cup {scalers[k].run : k \in Keys(scalers)})

\* features_df = pipeline.train_models(features_df)
TrainModelsCall ==
    /\ table # EmptyFrame
    /\ saving = <<>>
    /\ NextRun <= MaxRuns
    /\ \E learned \in Learnable :
          LET r == train_models(Pipeline, table, NextRun, learned)
          IN  /\ models' = r.pipeline.models
              /\ scalers' = r.pipeline.scalers
              /\ feature_names' = r.pipeline.feature_names
              /\ table' = r.table
              /\ result' = Outcome("train_models", r.raised, NoValue)
    /\ UNCHANGED <<store, df, model_dir, constraints, saving, reader, training>>

\* features_df = pipeline.predict_scores(features_df)
PredictScoresCall ==
    /\ table # EmptyFrame
    /\ LET r == predict_scores(Pipeline, table)
       IN  /\ table' = r.table
           /\ result' = Outcome("predict_scores", r.raised, NoValue)
    /\ UNCHANGED <<store, df, models, scalers, feature_names, model_dir,
                   constraints, saving, reader, training>>

\* insights = pipeline.get_employee_insights(employee_id, days): lines 278-283
\* compute the window and fetch the employee's reviews of it.
GetEmployeeInsights(employee_id, days) ==
    /\ LET end_date == Today
           start_date == end_date - days
       IN  \E reviews \in get_reviews(store, Some(start_date), None,
                                      Some(employee_id)) :
               LET r == get_employee_insights(Pipeline, reviews, employee_id,
                                              start_date, end_date)
               IN  result' = Outcome("get_employee_insights", r.raised, r.value)
    /\ UNCHANGED <<store, df, table, models, scalers, feature_names, model_dir,
                   constraints, saving, reader, training>>

GetEmployeeInsightsCall ==
    \E employee_id \in Employees : \E days \in LookbackDays :
        GetEmployeeInsights(employee_id, days)

Next ==
    \/ EngineerFeaturesCall
    \/ TrainModelsCall
    \/ PredictScoresCall
    \/ GetEmployeeInsightsCall

Spec == Init /\ [][Next]_vars

\* The last call was get_employee_insights and it returned an insight.
InsightReturned ==
    /\ result.op = "get_employee_insights"
    /\ result.raised = ""
    /\ "error" \notin DOMAIN result.value

\* The composite scorer's value for the last row of the slice an insight was
\* computed from.
SliceComposite(insight) ==
    LET reviews == CHOOSE r \in get_reviews(store, Some(insight.date_range[1]),
                                            None, Some(insight.employee_id)) : TRUE
        scored == create_composite_score(engineer_features(reviews).value).value
    IN  scored[Len(scored)]

\* C7: for every non-empty lookback window, with or without a model set, the
\* composite_score of the insight get_employee_insights returns is the
\* composite scorer's value for the most recent feature row of the slice and
\* lies in [1,5].
C7_InsightCompositeInRange ==
    InsightReturned =>
        /\ result.value.composite_score = SliceComposite(result.value)
        /\ Leq(One, result.value.composite_score)
        /\ Leq(result.value.composite_score, Int2Q(5))

\* C8: predict_scores builds the input of the estimators from the schema
\* recorded at training time, whatever other columns the table carries (also
\* the prediction columns of an earlier predict_scores call), so with a
\* fitted model set it never fails on a column mismatch.
C8_PredictUsesRecordedSchema ==
    (/\ result.op = "predict_scores"
     /\ \A k \in Keys(models) : models[k].fitted
     /\ \A k \in Keys(scalers) : scalers[k].fitted)
        => result.raised = ""

\* C9: a train_models call on a table of fewer than 2 rows raises, and
\* leaves models, scalers and feature_names as they were and the model
\* directory as it was.
C9_FailedTrainingPublishesNothing ==
    [][(TrainModelsCall /\ Len(table.rows) < 2) =>
          /\ result'.raised # ""
          /\ UNCHANGED <<models, scalers, feature_names, model_dir>>]_vars

\* The dates of a table span fewer than test_days days.
ShortHistory(t) ==
    \A i, j \in 1..Len(t.rows) : t.rows[i].date - t.rows[j].date < test_days

\* C10: train_models on a table whose dates span fewer than 14 days returns
\* without raising.
C10_ShortHistoryTrains ==
    (result.op = "train_models" /\ ShortHistory(table)) => result.raised = ""

\* The store holds no event of the employee in the window of days that ends
\* today.
NoEventsInWindow(employee_id, days) ==
    \A e \in store : ~(e.reviewee_id = employee_id /\ e.date >= Today - days)

NoData == [error |-> "No recent data found for employee"]

EventsInWindow(employee_id, days) ==
    {e \in store : e.reviewee_id = employee_id /\ e.date >= Today - days}

\* The feature row of the most recent date of the window, from the events
\* alone.
LatestFeatures(employee_id, days) ==
    LET reviews == CHOOSE r \in get_reviews(store, Some(Today - days), None,
                                            Some(employee_id)) : TRUE
        rows == engineer_features(reviews).value.rows
    IN  rows[Len(rows)]

\* The fields of an insight that are aggregated from the events are those of
\* the feature row latest, and total_reviews counts the events.
AggregatedFrom(insight, latest, events) ==
    /\ insight.avg_score = latest.avg_score
    /\ insight.collaboration_rate = latest.pct_collaborative
    /\ insight.collaboration_rate =
          Q(Cardinality({e \in events : /\ e.date = latest.date
                                         /\ e.descriptor = "collaborative"}),
            Cardinality({e \in events : e.date = latest.date}))
    /\ insight.withdrawn_rate = latest.pct_withdrawn
    /\ insight.score_trend_7d = latest.score_trend_7d
    /\ insight.total_reviews = Cardinality(events)

\* C14: with no model set loaded, get_employee_insights for a window that
\* holds events returns an insight and does not raise; avg_score,
\* collaboration_rate, withdrawn_rate, score_trend_7d and total_reviews are
\* those of the events, is_anomaly is False and behavior_cluster is 0.
C14_InsightWithoutModels ==
    [][\A employee_id \in Employees : \A days \in LookbackDays :
          (/\ result'.op = "get_employee_insights"
           /\ Keys(models) = {}
           /\ ~NoEventsInWindow(employee_id, days)
           /\ GetEmployeeInsights(employee_id, days)) =>
              /\ result'.raised = ""
              /\ "error" \notin DOMAIN result'.value
              /\ AggregatedFrom(result'.value,
                                LatestFeatures(employee_id, days),
                                EventsInWindow(employee_id, days))
              /\ result'.value.is_anomaly = FALSE
              /\ result'.value.behavior_cluster = 0]_vars

C14_Witness ==
    /\ InsightReturned
    /\ Keys(models) = {}
    /\ result.value.is_anomaly = FALSE
    /\ result.value.behavior_cluster = 0
    /\ result.value.total_reviews = 2
    /\ result.value.collaboration_rate = One

\* The rows of the table carry the columns predict_scores adds.
Predicted ==
    /\ result.op = "predict_scores"
    /\ result.raised = ""
    /\ "anomaly_score" \in Range(table.columns)
    /\ "behavior_cluster" \in Range(table.columns)

\* C17: in the table predict_scores returns, is_anomaly of a row is true
\* exactly when the row's decision score is below the detector's threshold
\* (a decision_function value below 0), and behavior_cluster of every row
\* and of every insight is one of 0..3.
C17_AnomalyFlagAndClusterRange ==
    /\ Predicted =>
          \A i \in 1..Len(table.rows) :
              /\ table.rows[i].is_anomaly = Lt(table.rows[i].anomaly_score, Zero)
              /\ table.rows[i].behavior_cluster \in 0..3
    /\ InsightReturned => result.value.behavior_cluster \in 0..3

C17_Witness ==
    /\ Predicted
    /\ \E i \in 1..Len(table.rows) :
          /\ table.rows[i].anomaly_score = Zero
          /\ table.rows[i].is_anomaly = FALSE
          /\ table.rows[i].behavior_cluster = 3

C17_WitnessAnomalous ==
    /\ Predicted
    /\ \E i \in 1..Len(table.rows) :
          /\ Lt(table.rows[i].anomaly_score, Zero)
          /\ table.rows[i].is_anomaly = TRUE

\* C20: a train_models call that raises after its regressor was fitted
\* leaves models, scalers and feature_names what they were before the call.
C20_FailedTrainingKeepsModelSet ==
    [][(/\ result'.op = "train_models"
        /\ result'.raised # ""
        /\ TrainModelsCall
        /\ "score_predictor" \in Keys(models')
        /\ models'["score_predictor"].fitted) =>
            UNCHANGED <<models, scalers, feature_names>>]_vars

\* C23: after a train_models call, whether or not the table already carried
\* a composite_score column, feature_names holds every column of the table
\* but employee_id, date and composite_score, and none of these three.
C23_SchemaExcludesTarget ==
    (result.op = "train_models" /\ result.raised = "") =>
        Range(feature_names) =
            Range(table.columns) \ {"employee_id", "date", "composite_score"}

\* The positions of the rows dated within the last 14 days of the table's
\* date range.
LastFortnight(t) ==
    {i \in 1..Len(t.rows) :
        \E j \in 1..Len(t.rows) :
            /\ \A k \in 1..Len(t.rows) : t.rows[k].date <= t.rows[j].date
            /\ t.rows[i].date > t.rows[j].date - 14}

\* C24: train_models puts a row into the holdout set exactly when its date is
\* within the last 14 days of the table's date range and into the training
\* set otherwise; every training date precedes every holdout date, and the
\* call succeeds only with a training row.
C24_TemporalSplit ==
    result.op = "train_models" =>
        /\ TestRows(table) = LastFortnight(table)
        /\ TrainRows(table) = (1..Len(table.rows)) \ LastFortnight(table)
        /\ \A i \in TrainRows(table) : \A j \in TestRows(table) :
              table.rows[i].date < table.rows[j].date
        /\ result.raised = "" => TrainRows(table) # {}

\* A table was trained on whose earliest holdout day is preceded by a row
\* dated exactly 14 days before the last date.
C24_Witness ==
    /\ result.op = "train_models"
    /\ result.raised = ""
    /\ TestRows(table) # {}
    /\ \E i \in TrainRows(table) :
          table.rows[i].date = MaxDate(table.rows) - 14

\* The events of the store an insight was computed from: those of its
\* employee dated from the start of its date range on.
InsightEvents(insight) ==
    {e \in store : /\ e.reviewee_id = insight.employee_id
                   /\ e.date >= insight.date_range[1]}

\* The feature row of the greatest date among the rows engineered from the
\* events of an insight.
GreatestDateRow(insight) ==
    LET reviews == CHOOSE r \in get_reviews(store, Some(insight.date_range[1]),
                                            None, Some(insight.employee_id)) : TRUE
        rows == engineer_features(reviews).value.rows
    IN  CHOOSE row \in Range(rows) : \A other \in Range(rows) : other.date <= row.date

\* C25: the avg_score, collaboration_rate, withdrawn_rate and score_trend_7d
\* of an insight are those of the employee's feature row of the greatest
\* date, and total_reviews is the number of the employee's events of the
\* window, with a model set or without.
C25_InsightOfLatestRow ==
    InsightReturned =>
        /\ result.value.avg_score = GreatestDateRow(result.value).avg_score
        /\ result.value.collaboration_rate =
              GreatestDateRow(result.value).pct_collaborative
        /\ result.value.withdrawn_rate = GreatestDateRow(result.value).pct_withdrawn
        /\ result.value.score_trend_7d = GreatestDateRow(result.value).score_trend_7d
        /\ result.value.total_reviews = Cardinality(InsightEvents(result.value))

\* An insight from a slice of two days whose rows differ, with models loaded.
C25_Witness ==
    /\ InsightReturned
    /\ Keys(models) # {}
    /\ result.value.total_reviews = 2
    /\ result.value.collaboration_rate = Zero
    /\ \E e \in InsightEvents(result.value) : e.descriptor = "collaborative"

-----------------------------------------------------------------------------
(* The model directory: a process that trains and saves, one that loads *)

\* The reviews the training process has fetched: one event per slot.
RegistryEvents ==
    {Event("R1", slot[1], slot[2], "collaborative", Int2Q(4), "") :
        slot \in HistorySlots}

\* The training process has engineered its feature table; no pipeline has a
\* model and the directory does not exist.
InitRegistry ==
    /\ store = RegistryEvents
    /\ df \in get_reviews(store, None, None, None)
    /\ table = engineer_features(df).value
    /\ result = Outcome("engineer_features", "", NoValue)
    /\ InitPipeline

\* pipeline.save_models(), reached when train_models has returned: the
\* mkdir, after which the file operations are pending.
SaveModelsCall ==
    /\ result.op = "train_models"
    /\ result.raised = ""
    /\ saving = <<>>
    /\ model_dir' = [model_dir EXCEPT !.exists = TRUE]
    /\ saving' = SaveOperations(Pipeline)
    /\ result' = Outcome("save_models", "running", NoValue)
    /\ UNCHANGED <<store, df, table, models, scalers, feature_names,
                   constraints, reader, training>>

\* The next file operation of the running save_models; after the last one
\* save_models returns.
SaveModelsStep ==
    /\ saving # <<>>
    /\ model_dir' = Perform(model_dir, Head(saving))
    /\ saving' = Tail(saving)
    /\ result' = IF Tail(saving) = <<>> THEN Outcome("save_models", "", NoValue)
                 ELSE result
    /\ UNCHANGED <<store, df, table, models, scalers, feature_names,
                   constraints, reader, training>>

\* The running save_models ends before its last file operation: the process
\* is killed, or a write raises OSError.
SaveModelsInterrupted ==
    /\ saving # <<>>
    /\ saving' = <<>>
    /\ result' = Outcome("save_models", "OSError", NoValue)
    /\ UNCHANGED <<store, df, table, models, scalers, feature_names, model_dir,
                   constraints, reader, training>>

\* The second process: a session of the app constructs its pipeline and
\* calls load_models() on it, once (app.py lines 34-37).
LoadModelsCall ==
    /\ reader = NewPipeline
    /\ \E read \in ReadSets(model_dir) :
          LET r == load_models(reader, model_dir, read)
          IN  /\ reader' = r.pipeline
              /\ result' = Outcome("load_models", "", [returned |-> r.returned])
    /\ UNCHANGED <<store, df, table, models, scalers, feature_names, model_dir,
                   constraints, saving, training>>

NextRegistry ==
    \/ TrainModelsCall
    \/ SaveModelsCall
    \/ SaveModelsStep
    \/ SaveModelsInterrupted
    \/ LoadModelsCall

SpecRegistry == InitRegistry /\ [][NextRegistry]_vars

\* The train_models calls that constructed the estimators of a pipeline.
SameDict(a, b) ==
    /\ Keys(a) = Keys(b)
    /\ \A key \in Keys(a) : a[key] = b[key]

SamePipeline(p, q) ==
    /\ SameDict(p.models, q.models)
    /\ SameDict(p.scalers, q.scalers)
    /\ p.feature_names = q.feature_names

SamePredictions(a, b) ==
    /\ a.raised = b.raised
    /\ a.table = b.table

RunsOf(p) ==
    {p.models[k].run : k \in Keys(p.models)}
    \cup {p.scalers[k].run : k \in Keys(p.scalers)}

\* C11: a load_models that runs while a save_models is in progress, or after
\* one that ended partway, never leaves the loading pipeline with components
\* of two different training runs.
C11_LoadedSetOfOneRun ==
    result.op = "load_models" => Cardinality(RunsOf(reader)) <= 1

\* C12: a load_models into a new pipeline that follows a save_models gives
\* that pipeline the models, scalers and feature_names that were saved, and
\* predict_scores then answers for the rows of a table what it answered
\* before the save.
C12_RoundTrip ==
    [][(result.op = "save_models" /\ result.raised = ""
        /\ result'.op = "load_models") =>
          /\ result'.value.returned = TRUE
          /\ SamePipeline(reader', Pipeline)
          /\ SamePredictions(predict_scores(reader', table),
                             predict_scores(Pipeline, table))]_vars

\* A new pipeline has loaded what the last save_models wrote, and it
\* predicts for the rows of the training table.
C12_Witness ==
    /\ result.op = "load_models"
    /\ result.value.returned = TRUE
    /\ saving = <<>>
    /\ reader = Pipeline
    /\ Keys(reader.models) = {ModelNames[i] : i \in DOMAIN ModelNames}
    /\ predict_scores(reader, table).raised = ""

\* The pipeline holds the three models, both scalers and a schema.
CompleteSet(p) ==
    /\ Keys(p.models) = {ModelNames[i] : i \in DOMAIN ModelNames}
    /\ Keys(p.scalers) = {ScalerNames[i] : i \in DOMAIN ScalerNames}
    /\ p.feature_names # <<>>

\* C21: load_models into a new pipeline either returns True and has
\* installed a complete model set, or returns False and has left models,
\* scalers and feature_names as they were.
C21_LoadIsAllOrNothing ==
    result.op = "load_models" =>
        IF result.value.returned THEN CompleteSet(reader)
        ELSE reader = NewPipeline

-----------------------------------------------------------------------------
(* The reviews table under add_review and the generators.  In this          *)
(* specification store is the bag of the table's rows: a table without its  *)
(* UNIQUE constraint can hold a row twice.                                  *)

MaxStoreRows == 3

\* CHECK (score >= 1 AND score <= 5), which a NULL score passes
ValidScore(score) ==
    IsNaN(score) \/ (Leq(One, score) /\ Leq(score, Int2Q(5)))

SameTriple(a, b) ==
    /\ a.reviewer_id = b.reviewer_id
    /\ a.reviewee_id = b.reviewee_id
    /\ a.date = b.date

\* The bag t without the rows of the triple of row.
Without(t, row) ==
    LET kept == {r \in BagToSet(t) : ~SameTriple(r, row)}
    IN  [r \in kept |-> t[r]]

\* INSERT OR REPLACE INTO reviews (database.py lines 79-83).  On the table
\* init_database created, a row that fails the CHECK raises and a row whose
\* triple is held replaces the held one; the descriptor column is TEXT NOT
\* NULL and takes any string.  On a table without constraints the row is
\* appended.
InsertOrReplace(t, constrained, row) ==
    IF ~constrained THEN Returned(t (+) SetToBag({row}))
    ELSE IF ~ValidScore(row.score) THEN Raised("IntegrityError", t)
    ELSE Returned(Without(t, row) (+) SetToBag({row}))

\* add_review (database.py lines 69-93): True, or False when the statement
\* raised.
add_review(t, constrained, row) ==
    LET r == InsertOrReplace(t, constrained, row)
    IN  [returned |-> r.raised = "", table |-> r.value]

\* df.to_sql('reviews', conn, if_exists='replace', index=False): the table
\* is dropped and created again from the columns of df.
to_sql_replace(generated) ==
    [table |-> SetToBag(generated), constrained |-> FALSE]

\* The (reviewer, reviewee, date) triples of the store's rows.
StoreTriples == {<<"E1", "E2", 1>>, <<"E2", "E1", 1>>}

\* What generate_data gives a row: a descriptor of its score_mapping and
\* int(np.clip(score, 1, 5)).
GeneratedPayloads ==
    {[descriptor |-> "collaborative", score |-> Int2Q(4)],
     [descriptor |-> "blocking", score |-> Int2Q(2)]}

\* generate_data / generate_realistic_data: at most one row per reviewer,
\* reviewee (different) and day, some skipped.
GeneratedFrames ==
    UNION {{{Event(k[1], k[2], k[3], f[k].descriptor, f[k].score, "") : k \in held}
            : f \in [held -> GeneratedPayloads]} : held \in SUBSET StoreTriples}

\* What a caller passes add_review: the form of the app gives a descriptor
\* of the fixed set and a score of 1..5; other callers are not held to that.
SubmittedDescriptors == {"collaborative", "hostile"}
SubmittedScores == {Int2Q(3), Int2Q(9)}

InitStore ==
    /\ store = EmptyBag
    /\ df = <<>>
    /\ table = EmptyFrame
    /\ result = NoResult
    /\ InitPipeline

\* DatabaseManager(): CREATE TABLE IF NOT EXISTS leaves a reviews table that
\* exists as it is.
InitDatabase ==
    /\ result' = Outcome("init_database", "", NoValue)
    /\ UNCHANGED <<store, df, table, models, scalers, feature_names, model_dir,
                   constraints, saving, reader, training>>

AddReview ==
    /\ BagCardinality(store) < MaxStoreRows
    /\ \E k \in StoreTriples : \E descriptor \in SubmittedDescriptors :
       \E score \in SubmittedScores :
          LET r == add_review(store, constraints,
                              Event(k[1], k[2], k[3], descriptor, score, ""))
          IN  /\ store' = r.table
              /\ result' = Outcome("add_review", "", [returned |-> r.returned])
    /\ UNCHANGED <<df, table, models, scalers, feature_names, model_dir,
                   constraints, saving, reader, training>>

\* SyntheticDataGenerator.save_to_sqlite
SaveToSqlite ==
    /\ \E generated \in GeneratedFrames :
          LET r == to_sql_replace(generated)
          IN  /\ store' = r.table
              /\ constraints' = r.constrained
    /\ result' = Outcome("save_to_sqlite", "", NoValue)
    /\ UNCHANGED <<df, table, models, scalers, feature_names, model_dir,
                   saving, reader, training>>

\* EnhancedDataGenerator.save_enhanced_data
SaveEnhancedData ==
    /\ \E generated \in GeneratedFrames :
          LET r == to_sql_replace(generated)
          IN  /\ store' = r.table
              /\ constraints' = r.constrained
    /\ result' = Outcome("save_enhanced_data", "", NoValue)
    /\ UNCHANGED <<df, table, models, scalers, feature_names, model_dir,
                   saving, reader, training>>

NextStore ==
    \/ InitDatabase
    \/ AddReview
    \/ SaveToSqlite
    \/ SaveEnhancedData

SpecStore == InitStore /\ [][NextStore]_vars

\* The number of rows the table holds for the triple of row.
RowsOfTriple(row) ==
    BagCardinality([r \in {x \in BagToSet(store) : SameTriple(x, row)} |-> store[r]])

\* C15: after any sequence of init_database, add_review, save_to_sqlite and
\* save_enhanced_data the reviews table holds at most one row per
\* (reviewer_id, reviewee_id, date).
C15_OneRowPerTriple ==
    \A row \in BagToSet(store) : RowsOfTriple(row) = 1

\* C16: while only init_database and add_review have acted on the table,
\* every row has a score in 1..5 and a descriptor of the fixed set.
C16_StoredRowsValid ==
    constraints =>
        \A row \in BagToSet(store) :
            /\ ~IsNaN(row.score) /\ Leq(One, row.score) /\ Leq(row.score, Int2Q(5))
            /\ row.descriptor \in Descriptors

-----------------------------------------------------------------------------
(* The rolling and trend features over a longer history of one employee    *)

MaxDays == 8
GapDays == 3

\* The scores of the history's events.
HistoryScores == {Int2Q(3), Int2Q(5)}

\* The date of the i-th day with reviews: consecutive days, with GapDays
\* days without reviews (a weekend, a leave) after the first gap_after of
\* them when gap_after is positive.
DateOfDay(i, gap_after) ==
    IF gap_after > 0 /\ i > gap_after THEN i + GapDays ELSE i

\* df = db.get_reviews() for a store that holds one event about E1 on each
\* of n days: the rows come most recent date first (ORDER BY date DESC).
InitRolling ==
    /\ \E n \in 1..MaxDays : \E gap_after \in 0..(n - 1) :
       \E score \in [1..n -> HistoryScores] :
          /\ df = [i \in 1..n |->
                     Event("R1", "E1", DateOfDay(n + 1 - i, gap_after),
                           "collaborative", score[n + 1 - i], "")]
          /\ store = Range(df)
    /\ table = EmptyFrame
    /\ result = NoResult
    /\ InitPipeline

NextRolling == EngineerFeaturesCall

SpecRolling == InitRolling /\ [][NextRolling]_vars

\* The difference of the cells named c of row p and of the row w rows
\* earlier, 0 when there are fewer than w earlier rows.
DifferenceOverRows(rows, c, w, p) ==
    IF p > w THEN Sub(rows[p][c], rows[p - w][c]) ELSE Zero

\* C18: for W in {7, 14} the trend of a row is the rolling mean of the row
\* less the rolling mean W rows earlier of the same employee, and 0 when the
\* employee has fewer than W earlier rows.
C18_TrendOfRollingMeans ==
    Engineered =>
        \A p \in 1..Len(table.rows) :
            /\ table.rows[p].score_trend_7d =
                  DifferenceOverRows(table.rows, "avg_score_rolling_7d", 7, p)
            /\ table.rows[p].score_trend_14d =
                  DifferenceOverRows(table.rows, "avg_score_rolling_14d", 14, p)
            /\ table.rows[p].collab_trend_7d =
                  DifferenceOverRows(table.rows, "pct_collaborative_rolling_7d", 7, p)
            /\ table.rows[p].collab_trend_14d =
                  DifferenceOverRows(table.rows, "pct_collaborative_rolling_14d", 14, p)

\* The mean of avg_score over the rows up to p whose date is one of the w
\* calendar days that end at the date of row p.
MeanOverDays(rows, w, p) ==
    Mean(Column(SelectSeq(SubSeq(rows, 1, p),
                          LAMBDA r : r.date > rows[p].date - w),
                "avg_score"))

\* C19: for W in {3, 7, 14} the rolling mean of a row dated d is the mean of
\* the employee's daily values over the rows dated within the W calendar
\* days that end at d (the first row gives its own value), also when the
\* history has days without a row.
C19_RollingOverCalendarDays ==
    Engineered =>
        \A p \in 1..Len(table.rows) :
            /\ table.rows[p].avg_score_rolling_3d = MeanOverDays(table.rows, 3, p)
            /\ table.rows[p].avg_score_rolling_7d = MeanOverDays(table.rows, 7, p)
            /\ table.rows[p].avg_score_rolling_14d = MeanOverDays(table.rows, 14, p)

-----------------------------------------------------------------------------
(* train_models as a background job: the assignments it makes to the       *)
(* pipeline one statement at a time, while get_employee_insights is served  *)
(* from the same pipeline.                                                  *)

\* The assignments of train_models (lines 192-241) to self.feature_names,
\* self.models and self.scalers, in the order of the source, up to the
\* statement that raises; `then` is the exception raised after the
\* assignment, "" when the call goes on or returns.
TrainingAssignments(t, run, learned) ==
    LET feature_columns == SelectSeq(t.columns, IsTrainingColumn)
        New(class) == Estimator(class, run)
        Fitted(class, value) == Fit(Estimator(class, run), feature_columns, value)
        Set(var, key, value) == [var |-> var, key |-> key, value |-> value, then |-> ""]
        all ==
            <<Set("feature_names", "", feature_columns),
              Set("models", "score_predictor", New("RandomForestRegressor")),
              Set("models", "score_predictor",
                  Fitted("RandomForestRegressor", learned.predicted_score)),
              Set("scalers", "anomaly", New("StandardScaler")),
              Set("scalers", "anomaly", Fitted("StandardScaler", <<>>)),
              Set("models", "anomaly_detector", New("IsolationForest")),
              Set("models", "anomaly_detector",
                  Fitted("IsolationForest", learned.anomaly_score)),
              Set("scalers", "clustering", New("StandardScaler")),
              Set("scalers", "clustering", Fitted("StandardScaler", <<>>)),
              Set("models", "behavior_clusters", New("KMeans")),
              Set("models", "behavior_clusters",
                  Fitted("KMeans", learned.behavior_cluster))>>
        y == create_composite_score(t)
        made == IF y.raised # "" THEN 1
                ELSE IF TrainRows(t) = {} THEN 2
                ELSE IF Len(t.rows) < n_clusters THEN 10
                ELSE Len(all)
        raised == IF y.raised # "" THEN y.raised
                  ELSE IF made < Len(all) THEN "ValueError" ELSE ""
    IN  [i \in 1..made |-> IF i = made THEN [all[i] EXCEPT !.then = raised]
                           ELSE all[i]]

\* One assignment to the pipeline p.
Assign(p, a) ==
    IF a.var = "feature_names" THEN [p EXCEPT !.feature_names = a.value]
    ELSE IF a.var = "models" THEN [p EXCEPT !.models = Put(@, a.key, a.value)]
    ELSE [p EXCEPT !.scalers = Put(@, a.key, a.value)]

\* The job calls train_models on its own copy of the feature table.
TrainModelsStart ==
    /\ training = <<>>
    /\ NextRun <= MaxRuns
    /\ \E learned \in Learnable :
          training' = Series(TrainingAssignments(table, NextRun, learned))
    /\ result' = Outcome("train_models", "running", NoValue)
    /\ UNCHANGED <<store, df, table, models, scalers, feature_names, model_dir,
                   constraints, saving, reader>>

\* The next assignment of the running train_models.
TrainModelsStep ==
    /\ training # <<>>
    /\ LET p == Assign(Pipeline, Head(training))
       IN  /\ models' = p.models
           /\ scalers' = p.scalers
           /\ feature_names' = p.feature_names
    /\ training' = Tail(training)
    /\ result' = Outcome("train_models",
                         IF Tail(training) = <<>> THEN Head(training).then
                         ELSE "running", NoValue)
    /\ UNCHANGED <<store, df, table, model_dir, constraints, saving, reader>>

NextTraining ==
    \/ TrainModelsStart
    \/ TrainModelsStep
    \/ GetEmployeeInsightsCall

SpecTraining == InitRegistry /\ [][NextTraining]_vars

\* The last call was a get_employee_insights that went on to inference: it
\* found events in its window and a model in self.models.
Inferred ==
    /\ result.op = "get_employee_insights"
    /\ result.raised # "" \/ "error" \notin DOMAIN result.value
    /\ Keys(models) # {}

\* C22: an inference that runs between two statements of a train_models on
\* the same pipeline is made with the complete model set of one training
\* run: no component of another run, none that is not fitted, and it does
\* not raise.
C22_InferenceUsesOneModelSet ==
    Inferred =>
        /\ CompleteSet(Pipeline)
        /\ Cardinality(RunsOf(Pipeline)) = 1
        /\ \A k \in Keys(models) : models[k].fitted
        /\ \A k \in Keys(scalers) : scalers[k].fitted
        /\ result.raised = ""

-----------------------------------------------------------------------------
(* engineer_features on events in any order *)

\* What the events of this specification carry: two descriptors, a NULL
\* score and two different scores.
OrderPayloads ==
    [slot : Slots, descriptor : {"collaborative", "withdrawn"},
     score : {NaN, Int2Q(3), Int2Q(5)}]

\* A DataFrame of at most MaxEvents events, its rows in any order.
InitOrder ==
    /\ \E n \in 0..MaxEvents : \E f \in [1..n -> OrderPayloads] :
          /\ df = [i \in 1..n |->
                     Event(Reviewer(i), f[i].slot[1], f[i].slot[2],
                           f[i].descriptor, f[i].score, "")]
          /\ store = Range(df)
    /\ table = EmptyFrame
    /\ result = NoResult
    /\ InitPipeline

SpecOrder == InitOrder /\ [][NextFeatures]_vars

\* C26: engineer_features gives the same table, rows and values, for every
\* order of the same events.
C26_OrderOfEventsIrrelevant ==
    Engineered =>
        \A other \in Orderings(Range(df)) :
            engineer_features(other) = Returned(table)

\* A table was engineered from two events of one employee and day that come
\* in the order of the lower score first, and differ in score.
C26_Witness ==
    /\ Engineered
    /\ Len(df) >= 2
    /\ df[1].reviewee_id = df[2].reviewee_id
    /\ df[1].date = df[2].date
    /\ df[1].score = Int2Q(3)
    /\ df[2].score = Int2Q(5)
    /\ Len(table.rows) = 1

\* The rows of a table for one employee.
RowsOf(t, employee_id) ==
    SelectSeq(t.rows, LAMBDA row : row.employee_id = employee_id)

\* The events about one reviewee, in the order of the DataFrame.
EventsAbout(events, employee_id) ==
    SelectSeq(events, LAMBDA e : e.reviewee_id = employee_id)

\* C27: the rows engineer_features gives an employee are those it gives for
\* the events about that employee alone, whatever other events the
\* DataFrame holds.
C27_RowsOfEmployeeIndependent ==
    Engineered =>
        \A employee_id \in {df[i].reviewee_id : i \in 1..Len(df)} :
            RowsOf(table, employee_id) =
                engineer_features(EventsAbout(df, employee_id)).value.rows

\* A table was engineered from events about two employees, two days of one
\* of them.
C27_Witness ==
    /\ Engineered
    /\ Len(RowsOf(table, "E1")) = 2
    /\ Len(RowsOf(table, "E2")) = 1
    /\ \E i \in 1..Len(df) : df[i].reviewee_id = "E1" /\ df[i].score = Int2Q(5)
    /\ \E i \in 1..Len(df) : df[i].reviewee_id = "E2" /\ df[i].score = Int2Q(3)

-----------------------------------------------------------------------------
(* The model registry of the enterprise backend: the ml_models table of     *)
(* v3_enterprise/backend/database.py.  In this specification store is the   *)
(* set of that table's rows (name, version, type, is_active; the id and the *)
(* timestamps are left out).                                                *)

\* UniqueConstraint('name', 'is_active', name='unique_active_model'): no two
\* rows agree in name and in is_active.
unique_active_model(rows) ==
    \A a, b \in rows : (a.name = b.name /\ a.is_active = b.is_active) => a = b

\* save_ml_model (lines 364-377) in its session: the UPDATE that deactivates
\* the rows of the name, then the INSERT of MLModel(**model_data), flushed.
\* A statement that breaks the constraint raises IntegrityError, and
\* get_session rolls the transaction back (lines 203-205).
save_ml_model(rows, model_data) ==
    LET updated == {IF r.name = model_data.name
                    THEN [r EXCEPT !.is_active = FALSE] ELSE r : r \in rows}
        inserted == updated \cup {model_data}
    IN  IF ~unique_active_model(updated)
        THEN [raised |-> "IntegrityError", rows |-> rows, value |-> NoValue]
        ELSE IF ~unique_active_model(inserted)
        THEN [raised |-> "IntegrityError", rows |-> rows, value |-> NoValue]
        ELSE [raised |-> "", rows |-> inserted, value |-> model_data]

\* get_active_model (lines 379-386): fetchone() of the active rows of the
\* name, None when there is none.
get_active_model(rows, model_name) ==
    LET active == {r \in rows : r.name = model_name /\ r.is_active}
    IN  IF active = {} THEN {NoValue} ELSE active

\* The model_data of the next version of a name: the caller numbers the
\* versions and saves each as the one to serve (is_active=True).
ModelData(rows) ==
    {[name |-> name,
      version |-> Cardinality({r \in rows : r.name = name}) + 1,
      type |-> type,
      is_active |-> TRUE] :
        name \in {"score_predictor", "behavior_clusters"},
        type \in {"regressor", "clusterer"}}

InitModelRegistry ==
    /\ store = {}
    /\ df = <<>>
    /\ table = EmptyFrame
    /\ result = NoResult
    /\ InitPipeline

SaveMlModelCall ==
    /\ \E model_data \in ModelData(store) :
          LET r == save_ml_model(store, model_data)
          IN  /\ store' = r.rows
              /\ result' = Outcome("save_ml_model", r.raised,
                                   [name |-> model_data.name, model |-> r.value])
    /\ UNCHANGED <<df, table, models, scalers, feature_names, model_dir,
                   constraints, saving, reader, training>>

GetActiveModelCall ==
    /\ \E model_data \in ModelData(store) :
       \E row \in get_active_model(store, model_data.name) :
          result' = Outcome("get_active_model", "",
                            [name |-> model_data.name, model |-> row])
    /\ UNCHANGED <<store, df, table, models, scalers, feature_names, model_dir,
                   constraints, saving, reader, training>>

NextModelRegistry ==
    \/ SaveMlModelCall
    \/ GetActiveModelCall

SpecModelRegistry == InitModelRegistry /\ [][NextModelRegistry]_vars

\* The active rows of a name.
ActiveRows(name) == {r \in store : r.name = name /\ r.is_active}

\* C28: every save_ml_model of a further version of a name succeeds, and
\* after it the version just saved is the one active row of the name, which
\* get_active_model returns.
C28_EverySaveActivatesItsVersion ==
    /\ result.op = "save_ml_model" =>
          /\ result.raised = ""
          /\ ActiveRows(result.value.name) = {result.value.model}
    /\ result.op = "get_active_model" =>
          (ActiveRows(result.value.name) # {} =>
              ActiveRows(result.value.name) = {result.value.model})

-----------------------------------------------------------------------------
(* get_employee_insights on a store that also holds events dated after the  *)
(* day of the call (add_review stores the review_date it is given).         *)

\* The (reviewee, date) pairs of the store: before the default window, in
\* it, on the day of the call and on the day after.
WindowSlots ==
    {<<"E1", Today - test_days - 1>>, <<"E1", Today - 1>>, <<"E1", Today>>,
     <<"E1", Today + 1>>, <<"E2", Today + 1>>}

InitWindow ==
    /\ \E held \in SUBSET WindowSlots : \E f \in [held -> HistoryPayloads] :
          store = {Event("R1", slot[1], slot[2], f[slot].descriptor,
                         f[slot].score, "") : slot \in held}
    /\ df = <<>>
    /\ table = EmptyFrame
    /\ result = NoResult
    /\ InitPipeline

SpecWindow == InitWindow /\ [][GetEmployeeInsightsCall]_vars

\* The events of the store about the employee of an insight that are dated
\* within its date_range, both ends included.
EventsInDateRange(insight) ==
    {e \in store : /\ e.reviewee_id = insight.employee_id
                   /\ e.date >= insight.date_range[1]
                   /\ e.date <= insight.date_range[2]}

\* C30: the events an insight was computed from are the events of its
\* employee dated within its date_range: total_reviews, the number of events
\* used, is the number of those events, whatever the store holds.
C30_EventsWithinDateRange ==
    (/\ result.op = "get_employee_insights"
     /\ result.raised = ""
     /\ "error" \notin DOMAIN result.value) =>
        result.value.total_reviews = Cardinality(EventsInDateRange(result.value))

-----------------------------------------------------------------------------
(* The features of the most recent row: from the lookback slice that        *)
(* get_employee_insights fetches, and from the employee's whole history     *)

MinHistoryDays == 14
MaxHistoryDays == 17

\* The days argument of get_employee_insights: a week, the default, and one
\* day more than the default.
SliceDays == {7, test_days, test_days + 1}

\* The store holds one event about E1 on each of the n days that end today,
\* but for the day `skipped` (0: none is skipped); the score is 3, but 5 on
\* the day `high` (0: on none).  The caller has fetched all of them.
InitSlice ==
    /\ \E n \in MinHistoryDays..MaxHistoryDays :
       \E high \in 0..n : \E skipped \in {0, n - 3} :
          store = {Event("R1", "E1", Today - n + i, "collaborative",
                         IF i = high THEN Int2Q(5) ELSE Int2Q(3), "") :
                      i \in (1..n) \ {skipped}}
    /\ df \in get_reviews(store, None, None, None)
    /\ table = EmptyFrame
    /\ result = NoResult
    /\ InitPipeline

GetSliceInsightsCall ==
    \E days \in SliceDays : GetEmployeeInsights("E1", days)

NextSlice ==
    \/ EngineerFeaturesCall
    \/ GetSliceInsightsCall

SpecSlice == InitSlice /\ [][NextSlice]_vars

\* The employee's most recent row of the table engineered from the history.
HistoryLatestRow(employee_id) ==
    CHOOSE row \in Range(table.rows) :
        /\ row.employee_id = employee_id
        /\ \A other \in Range(table.rows) :
              other.employee_id = employee_id => other.date <= row.date

\* The rows of the employee that the slice of an insight has before its most
\* recent one: a row per date with an event.
SliceRowsBeforeLast(insight) ==
    Cardinality({e.date : e \in InsightEvents(insight)}) - 1

\* An insight of get_employee_insights is in hand, and so is the table
\* engineered from the whole history.
SliceAndHistory ==
    /\ table # EmptyFrame
    /\ result.op = "get_employee_insights"
    /\ result.raised = ""
    /\ "error" \notin DOMAIN result.value

\* The rolling and trend features of the two rows are equal.
SameRollingFeatures(slice_row, history_row) ==
    \A c \in Range(AddedColumns) : slice_row[c] = history_row[c]

\* C29: when the slice of an insight has at least 14 rows of the employee
\* before the most recent one, the rolling and trend features of that row
\* engineered from the slice are those engineered from the whole history,
\* and so is the score_trend_7d the insight reports.
C29_SliceFeaturesAreHistoryFeatures ==
    (SliceAndHistory /\ SliceRowsBeforeLast(result.value) >= 14) =>
        /\ SameRollingFeatures(GreatestDateRow(result.value),
                               HistoryLatestRow(result.value.employee_id))
        /\ result.value.score_trend_7d =
              HistoryLatestRow(result.value.employee_id).score_trend_7d

\* The slice has 14 earlier rows, the history has more, and the 14-day trend
\* is not 0.
C29_Witness ==
    /\ SliceAndHistory
    /\ SliceRowsBeforeLast(result.value) >= 14
    /\ Len(table.rows) > SliceRowsBeforeLast(result.value) + 1
    /\ GreatestDateRow(result.value).score_trend_14d # Zero
    /\ SameRollingFeatures(GreatestDateRow(result.value),
                           HistoryLatestRow(result.value.employee_id))

\* With fewer than 14 earlier rows in the slice the features can differ.
C29_WitnessShortSlice ==
    /\ SliceAndHistory
    /\ SliceRowsBeforeLast(result.value) < 14
    /\ ~SameRollingFeatures(GreatestDateRow(result.value),
                            HistoryLatestRow(result.value.employee_id))

====
